---- MODULE Spec2Model ----
(***************************************************************************)
(* Session lifecycle monitor of the GitHub-issues / Devin integration      *)
(* backend: the issue_sessions table, the scope/resolve request handlers,  *)
(* the background monitor_devin_session tasks, the startup sweep of        *)
(* lifespan, and DevinClient.extract_action_plan_and_confidence.           *)
(***************************************************************************)
EXTENDS Integers, Sequences, FiniteSets, TLC

(***************************************************************************)
(* Bounds of the model.                                                    *)
(***************************************************************************)
MaxPolls == 3         \* iterations of the polling loop in one behaviour, all monitors
MaxPlanLines == 2     \* lines between the plan marker and the confidence line

(***************************************************************************)
(* Program constants.                                                      *)
(***************************************************************************)
max_wait_time == 1800
poll_interval == 30

\* Python's None for the two optional columns / return values.
NoPlan == << >>
NoScore == 0 - 1

(***************************************************************************)
(* Text.  A line of a message is a sequence of tokens; a token is a piece  *)
(* of text that the extractor tells apart: a marker (in some letter case), *)
(* a colon, a digit, a percent sign, a blank, or a word.                   *)
(***************************************************************************)
Digits == {"0", "1", "5", "7", "8"}

DigitVal(d) ==
    CASE d = "0" -> 0 [] d = "1" -> 1 [] d = "5" -> 5 [] d = "7" -> 7
      [] d = "8" -> 8

\* str.upper() on a token
Upper(tok) ==
    CASE tok = "Action Plan:" -> "ACTION PLAN:"
      [] tok = "Confidence Score:" -> "CONFIDENCE SCORE:"
      [] tok = "confidence:" -> "CONFIDENCE:"
      [] OTHER -> tok

\* "ACTION PLAN:" in line.upper()
HasPlanMarker(line) == \E i \in 1..Len(line) : Upper(line[i]) = "ACTION PLAN:"

\* "CONFIDENCE SCORE:" in line.upper() or "CONFIDENCE:" in line.upper()
HasConfMarker(line) ==
    \E i \in 1..Len(line) : Upper(line[i]) \in {"CONFIDENCE SCORE:", "CONFIDENCE:"}

\* the token ends with a colon
EndsColon(tok) ==
    Upper(tok) \in {"ACTION PLAN:", "CONFIDENCE SCORE:", "CONFIDENCE:", ":"}

\* line.split(":")[-1]
AfterLastColon(line) ==
    LET cs == {i \in 1..Len(line) : EndsColon(line[i])}
    IN  IF cs = {} THEN line
        ELSE LET last == CHOOSE i \in cs : \A j \in cs : j <= i
             IN  SubSeq(line, last + 1, Len(line))

\* variant: the line is kept as it is
NoStrip(line) == line

\* str.strip()
Strip(line) ==
    LET ns == {i \in 1..Len(line) : line[i] # " "}
    IN  IF ns = {} THEN << >>
        ELSE LET lo == CHOOSE i \in ns : \A j \in ns : i <= j
                 hi == CHOOSE i \in ns : \A j \in ns : j <= i
             IN  SubSeq(line, lo, hi)

\* re.search(r'(\d+)', text): the first maximal run of digits, << >> if none
FirstDigitRun(text) ==
    LET ds == {i \in 1..Len(text) : text[i] \in Digits}
    IN  IF ds = {} THEN << >>
        ELSE LET lo == CHOOSE i \in ds : \A j \in ds : i <= j
                 nd == {i \in lo..Len(text) : text[i] \notin Digits}
                 hi == IF nd = {} THEN Len(text)
                       ELSE (CHOOSE i \in nd : \A j \in nd : i <= j) - 1
             IN  SubSeq(text, lo, hi)

\* int(match.group(1))
RECURSIVE ToInt(_)
ToInt(run) ==
    IF run = << >> THEN 0
    ELSE 10 * ToInt(SubSeq(run, 1, Len(run) - 1)) + DigitVal(run[Len(run)])

(***************************************************************************)
(* DevinClient.extract_action_plan_and_confidence                          *)
(***************************************************************************)
\* the loop over the lines of one message; st = [started, plan_lines, score]
RECURSIVE ScanLines(_, _)
ScanLines(lines, st) ==
    IF lines = << >> THEN st
    ELSE LET line == Head(lines)
             run == FirstDigitRun(Strip(AfterLastColon(line)))
             nxt == IF HasPlanMarker(line)
                      THEN [st EXCEPT !.started = TRUE]
                    ELSE IF HasConfMarker(line)
                      THEN [st EXCEPT !.started = FALSE,
                                      !.score = IF run # << >> THEN ToInt(run)
                                                ELSE st.score]
                    ELSE IF st.started /\ Strip(line) # << >>
                      THEN [st EXCEPT !.plan_lines = Append(@, Strip(line))]
                    ELSE st
         IN  ScanLines(Tail(lines), nxt)

\* variant: a message of any type is scanned
IsScannedAnyType(message) ==
    \E i \in 1..Len(message.message) : HasPlanMarker(message.message[i])

\* message.get("type") == "devin_message", and "ACTION PLAN:" in content.upper()
IsScanned(message) ==
    /\ message.type = "devin_message"
    /\ \E i \in 1..Len(message.message) : HasPlanMarker(message.message[i])

\* variant: the first plan found is kept
KeepFirstPlan(action_plan, plan_lines) ==
    IF action_plan # NoPlan THEN action_plan ELSE plan_lines

\* if plan_lines: action_plan = '\n'.join(plan_lines)
NewPlan(action_plan, plan_lines) ==
    IF plan_lines # << >> THEN plan_lines ELSE action_plan

\* the loop over the messages; acc = [action_plan, confidence_score]
RECURSIVE ScanMessages(_, _)
ScanMessages(msgs, acc) ==
    IF msgs = << >> THEN acc
    ELSE LET message == Head(msgs)
             scanned == ScanLines(message.message,
                                  [started |-> FALSE, plan_lines |-> << >>,
                                   score |-> acc.confidence_score])
             nxt == IF IsScanned(message)
                      THEN [action_plan |->
                               NewPlan(acc.action_plan, scanned.plan_lines),
                            confidence_score |-> scanned.score]
                    ELSE acc
         IN  ScanMessages(Tail(msgs), nxt)

extract_action_plan_and_confidence(session_details) ==
    ScanMessages(session_details.messages,
                 [action_plan |-> NoPlan, confidence_score |-> NoScore])

(***************************************************************************)
(* What the remote agent service can answer to get_session_details.        *)
(***************************************************************************)
PlanLine == <<" ", "step", " ">>
TextLine == <<"note">>

\* plan block and "CONFIDENCE SCORE: 85%", with text before and after
MsgFull ==
    [type |-> "devin_message",
     message |-> << TextLine, <<"ACTION PLAN:">>, PlanLine, << >>,
                    <<"CONFIDENCE SCORE:", " ", "8", "5", "%">>, TextLine >>]
\* plan block and no confidence marker
MsgNoConf ==
    [type |-> "devin_message",
     message |-> << <<"Action Plan:">>, PlanLine, TextLine >>]
\* plan block and "confidence: 0"
MsgZero ==
    [type |-> "devin_message",
     message |-> << <<"ACTION PLAN:">>, PlanLine, <<"confidence:", " ", "0">> >>]
\* plan marker with no plan lines, and "CONFIDENCE: about 150 %"
MsgConfOnly ==
    [type |-> "devin_message",
     message |-> << <<"ACTION PLAN:">>, << " " >>,
                    <<"CONFIDENCE:", "about", " ", "1", "5", "0", " ", "%">> >>]
\* no marker at all
MsgPlain == [type |-> "devin_message", message |-> << TextLine >>]
\* a user message that quotes the requested format
MsgUser ==
    [type |-> "user_message",
     message |-> << <<"ACTION PLAN:">>, PlanLine, <<"CONFIDENCE SCORE:", "7">> >>]

\* the transcripts the monitors are given: one per outcome of the extraction
\* (a complete pair, a plan alone, a plan with 0, a score alone, nothing)
Transcripts ==
    { << MsgUser, MsgFull >>, << MsgNoConf >>, << MsgZero >>, << MsgConfOnly >>,
      << MsgUser, MsgPlain >> }

\* status_enum values of the remote service; "None" is an absent field
StatusEnums == {"None", "working", "Blocked", "finished", "expired"}

\* the answers; with a status for which the monitor reads no message, one
\* transcript stands for all
SessionDetails ==
    {d \in [status_enum : StatusEnums, messages : Transcripts] :
        d.status_enum \in {"None", "working"}
            => d.messages = << MsgUser, MsgPlain >>}

\* the extraction for each answer
Extracted ==
    [d \in SessionDetails |-> extract_action_plan_and_confidence(d)]

(***************************************************************************)
(* The transcripts given to a direct call of the extractor: one message,   *)
(* or two of which one is of the remote answers above; an agent message is *)
(* text, the plan marker, up to MaxPlanLines lines, a confidence line,     *)
(* text, each part but the marker optional.                                *)
(***************************************************************************)
BlankLine == <<" ">>
\* a line of the plan that mentions confidence: to the extractor, a marker
MentionLine == <<"raise", "confidence:", "qa">>
BodyLines == {PlanLine, TextLine, BlankLine, MentionLine}
Bodies == UNION {[1..n -> BodyLines] : n \in 0..MaxPlanLines}
ConfLines == { <<"CONFIDENCE SCORE:", " ", "8", "5", "%">>,
               <<"Confidence Score:", "7">> }

AgentMessages ==
    { [type |-> "devin_message",
       message |-> pre \o << <<"ACTION PLAN:">> >> \o body \o conf \o post] :
         pre \in {<< >>, <<TextLine>>}, body \in Bodies,
         conf \in {<< >>} \cup {<<c>> : c \in ConfLines},
         post \in {<< >>, <<TextLine>>} }

InputMessages == AgentMessages \cup {MsgUser, MsgPlain}

\* the messages that come with another one, before it or after it
OtherMessages == {MsgFull, MsgNoConf, MsgZero, MsgConfOnly, MsgUser, MsgPlain}

InputTranscripts ==
    {<<m>> : m \in InputMessages}
        \cup {<<m1, m2>> : m1 \in OtherMessages, m2 \in InputMessages}
        \cup {<<m1, m2>> : m1 \in InputMessages, m2 \in OtherMessages}

\* status = status_enum.lower() if status_enum else "unknown"
StatusOf(session_details) ==
    CASE session_details.status_enum = "None" -> "unknown"
      [] session_details.status_enum = "Blocked" -> "blocked"
      [] OTHER -> session_details.status_enum

(***************************************************************************)
(* State.                                                                  *)
(***************************************************************************)
Issues == {7}
HardcodedRepo == "GoogleCloudPlatform/marketing-analytics-jumpstart"
Repos == {"google/meridian"}    \* the default of both request models
SessionIds == {1, 2}    \* the session ids the gateway hands out, in this order
NoRequest == [kind |-> "none", issue_number |-> 0, repo |-> "none"]

\* the answer to a request: the HTTP status and what the detail names
NoResponse == [status_code |-> 0, detail |-> "none"]
Response(status_code, detail) == [status_code |-> status_code, detail |-> detail]

\* extract_action_plan_and_confidence has not been called
NotExtracted == [action_plan |-> << <<"?">> >>, confidence_score |-> 0 - 2]

VARIABLES
    up,              \* the server process is running
    devin_client,    \* TRUE iff DEVIN_API_KEY was set when the process started
    issue_sessions,  \* the rows of table issue_sessions, in id order
    tasks,           \* the monitor_devin_session tasks of the running process
    comments,        \* per session, the comments posted on GitHub for it, in order
    created,         \* per session, the request that created it
    polls,           \* iterations of the polling loop so far
    response,        \* the answer to the request the last step handled, if any
    github_reliable, \* TRUE iff GitHub answers 201 to every comment post
    messages,        \* the transcript given to a direct call of the extractor
    extraction       \* what that call returned

vars == <<up, devin_client, issue_sessions, tasks, comments, created, polls,
          response, github_reliable, messages, extraction>>

\* what the server never touches: its environment, and the direct extractor call
env_vars == <<devin_client, github_reliable, messages, extraction>>

\* the outcomes of a comment post: 201 (TRUE), or anything else (FALSE)
PostOutcomes == IF github_reliable THEN {TRUE} ELSE BOOLEAN

Init ==
    /\ up = FALSE
    /\ devin_client \in BOOLEAN
    /\ issue_sessions = << >>
    /\ tasks = << >>
    /\ comments = [s \in SessionIds |-> << >>]
    /\ created = [s \in SessionIds |-> NoRequest]
    /\ polls = 0
    /\ response = NoResponse
    /\ github_reliable = FALSE
    /\ messages = << >>
    /\ extraction = NotExtracted

(***************************************************************************)
(* The table.                                                              *)
(***************************************************************************)
\* INSERT INTO issue_sessions (issue_number, issue_title, devin_session_id, status)
Insert(rows, issue_number, session_id, status) ==
    Append(rows, [issue_number |-> issue_number,
                  devin_session_id |-> session_id,
                  action_plan |-> NoPlan,
                  confidence_score |-> NoScore,
                  status |-> status])

\* INSERT OR REPLACE INTO issue_sessions (issue_number, issue_title,
\* devin_session_id, status): the table's only key is the AUTOINCREMENT id,
\* which the statement does not give, so no row conflicts: a new row
InsertOrReplace(rows, issue_number, session_id, status) ==
    Insert(rows, issue_number, session_id, status)

\* UPDATE issue_sessions SET status = ? WHERE devin_session_id = ?
UpdateStatus(rows, session_id, status) ==
    [i \in DOMAIN rows |->
        IF rows[i].devin_session_id = session_id
          THEN [rows[i] EXCEPT !.status = status] ELSE rows[i]]

\* UPDATE issue_sessions SET action_plan = ?, confidence_score = ?,
\*        status = 'completed' WHERE devin_session_id = ?
UpdateResult(rows, session_id, action_plan, confidence_score) ==
    [i \in DOMAIN rows |->
        IF rows[i].devin_session_id = session_id
          THEN [rows[i] EXCEPT !.action_plan = action_plan,
                               !.confidence_score = confidence_score,
                               !.status = "completed"]
          ELSE rows[i]]

\* SELECT COUNT(*) FROM issue_sessions
\*  WHERE devin_session_id = ? AND status = 'blocked'
BlockedCount(rows, session_id) ==
    Cardinality({i \in DOMAIN rows : /\ rows[i].devin_session_id = session_id
                                     /\ rows[i].status = "blocked"})

(***************************************************************************)
(* Comments and tasks.                                                     *)
(***************************************************************************)
\* the body of a comment: which template, and what it embeds
Body(kind, action_plan, confidence_score) ==
    [kind |-> kind, action_plan |-> action_plan,
     confidence_score |-> confidence_score]

\* post_github_comment(issue_number, comment, repo): answered 201 (ok), the
\* comment is on the issue; otherwise it raises and the comment is lost
Posted(log, session_id, issue_number, body, repo, ok) ==
    IF ok
      THEN [log EXCEPT ![session_id] =
              Append(@, [kind |-> body.kind,
                         action_plan |-> body.action_plan,
                         confidence_score |-> body.confidence_score,
                         issue_number |-> issue_number,
                         repo |-> repo])]
      ELSE log

\* a call monitor_devin_session(session_id, issue_number, repo, session_type)
\* that was scheduled; start_time is now, so nothing has elapsed.  Two
\* history fields the code does not hold: resumed_from, the status of the row
\* lifespan started the call for ("request" when a handler started it), and
\* blocked_posted, the "blocked" comments this call has posted
MonitorTask(session_id, issue_number, repo, session_type, resumed_from) ==
    [session_id |-> session_id, issue_number |-> issue_number, repo |-> repo,
     session_type |-> session_type, elapsed |-> 0,
     resumed_from |-> resumed_from, blocked_posted |-> 0]

\* variant: the call is scheduled twice
ScheduleMonitorTwice(ts, task) == Append(Append(ts, task), task)

\* asyncio.create_task(...) / background_tasks.add_task(...)
ScheduleMonitor(ts, task) == Append(ts, task)

\* the task at index i returns
Remove(ts, i) == SubSeq(ts, 1, i - 1) \o SubSeq(ts, i + 1, Len(ts))

\* variant: no budget check
TimedOutNever(elapsed) == FALSE

\* variant: the budget check allows one more poll interval
TimedOutLate(elapsed) == elapsed > max_wait_time + poll_interval

\* elapsed > max_wait_time
TimedOut(elapsed) == elapsed > max_wait_time

\* the values of elapsed at the next loop head, after asyncio.sleep(poll_interval):
\* the poll interval alone, or a stall (of the calls awaited, or of the
\* process) that lasts until the budget is just exceeded
AfterSleep(elapsed) ==
    {elapsed + poll_interval, max_wait_time + 1}

\* Python truthiness of "action_plan and confidence_score"
Truthy(action_plan, confidence_score) ==
    /\ action_plan # NoPlan
    /\ confidence_score # NoScore
    /\ confidence_score # 0

(***************************************************************************)
(* lifespan: the startup sweep.                                            *)
(***************************************************************************)
\* variant: the WHERE clause leaves out 'blocked'
IncompleteStatusesNoBlocked == {"scoping", "resolving"}

\* variant: the WHERE clause also selects 'completed'
IncompleteStatusesAndCompleted == {"scoping", "resolving", "blocked", "completed"}

\* WHERE status IN ('scoping', 'resolving', 'blocked')
IncompleteStatuses == {"scoping", "resolving", "blocked"}

\* session_type = "scoping" if status in ['scoping', 'blocked'] else "resolving"
ResumedType(status) ==
    IF status \in {"scoping", "blocked"} THEN "scoping" ELSE "resolving"

\* the tasks created by the loop over the selected rows, in row order
RECURSIVE SweepTasks(_, _)
SweepTasks(rows, ts) ==
    IF rows = << >> THEN ts
    ELSE LET row == Head(rows)
         IN  SweepTasks(Tail(rows),
               IF row.status \in IncompleteStatuses
                 THEN ScheduleMonitor(ts,
                        MonitorTask(row.devin_session_id, row.issue_number,
                                    HardcodedRepo, ResumedType(row.status),
                                    row.status))
                 ELSE ts)

\* the process starts: lifespan
Startup ==
    /\ ~up
    /\ up' = TRUE
    /\ tasks' = SweepTasks(issue_sessions, << >>)
    /\ response' = NoResponse
    /\ UNCHANGED <<issue_sessions, comments, created, polls, env_vars>>

\* the process is killed or redeployed: its tasks are gone, the table stays
Crash ==
    /\ up
    /\ up' = FALSE
    /\ tasks' = << >>
    /\ response' = NoResponse
    /\ UNCHANGED <<issue_sessions, comments, created, polls, env_vars>>

(***************************************************************************)
(* The request handlers.                                                   *)
(***************************************************************************)
\* the session_id the gateway assigns next (unique per created session)
NextSession == Cardinality({s \in SessionIds : created[s] # NoRequest}) + 1

\* the part both handlers share once create_devin_session has returned
\* session_id: INSERT, post the "started" comment, schedule the monitor.
\* A failed post raises, and the handler answers 500 before add_task.
Started(kind, issue_number, repo, ok) ==
    LET session_id == NextSession
        started == IF kind = "scoping" THEN "scoping_started"
                   ELSE "resolution_started"
    IN  /\ created' = [created EXCEPT ![session_id] =
                          [kind |-> kind, issue_number |-> issue_number,
                           repo |-> repo]]
        /\ issue_sessions' =
              IF kind = "scoping"
                THEN Insert(issue_sessions, issue_number, session_id, kind)
                ELSE InsertOrReplace(issue_sessions, issue_number, session_id, kind)
        /\ comments' = Posted(comments, session_id, issue_number,
                              Body(started, NoPlan, NoScore), repo, ok)
        /\ tasks' = IF ok
                      THEN ScheduleMonitor(tasks,
                             MonitorTask(session_id, issue_number, repo, kind,
                                         "request"))
                      ELSE tasks
        /\ response' = IF ok THEN Response(200, kind)
                       ELSE Response(500, "post_github_comment")
        /\ UNCHANGED <<up, polls, env_vars>>

\* POST /scope-issue or /resolve-issue without DEVIN_API_KEY: 503
RequestNotConfigured ==
    /\ up
    /\ ~devin_client
    /\ response' = Response(503, "not configured")
    /\ UNCHANGED <<up, issue_sessions, tasks, comments, created, polls, env_vars>>

\* variant: the row is written before create_devin_session is awaited
RequestFailedAfterInsert ==
    /\ up
    /\ devin_client
    /\ response' = Response(500, "create_devin_session")
    /\ issue_sessions' = Insert(issue_sessions, 7, 0, "scoping")
    /\ UNCHANGED <<up, tasks, comments, created, polls, env_vars>>

\* POST /scope-issue or /resolve-issue: create_devin_session raises, or the
\* answer holds no session_id (for /resolve-issue also: the issue is not
\* found): an error answer, and nothing else
RequestFailed ==
    /\ up
    /\ devin_client
    /\ response' = Response(500, "create_devin_session")
    /\ UNCHANGED <<up, issue_sessions, tasks, comments, created, polls, env_vars>>

\* POST /scope-issue
scope_issue(issue_number, repo) ==
    /\ up
    /\ devin_client
    /\ NextSession \in SessionIds
    /\ \E ok \in PostOutcomes : Started("scoping", issue_number, repo, ok)

\* POST /resolve-issue
resolve_issue(issue_number, repo) ==
    /\ up
    /\ devin_client
    /\ NextSession \in SessionIds
    /\ \E ok \in PostOutcomes : Started("resolving", issue_number, repo, ok)

(***************************************************************************)
(* monitor_devin_session, one action per iteration of its loop.  The      *)
(* monitors of different sessions touch different rows and comments, so    *)
(* the steps of an iteration need no interleaving with other tasks; a      *)
(* process killed while a post is awaited leaves the state of a failed     *)
(* post followed by Crash.                                                 *)
(***************************************************************************)
\* await asyncio.sleep(poll_interval), back to the loop head; `posted` tells
\* whether this iteration put a "blocked" comment on the issue
SleepAfter(i, posted) ==
    \E e \in AfterSleep(tasks[i].elapsed) :
        tasks' = [tasks EXCEPT ![i].elapsed = e,
                               ![i].blocked_posted = IF posted THEN @ + 1 ELSE @]

Sleep(i) == SleepAfter(i, FALSE)

\* the same, the sleep or the awaited call lasting until the budget is exceeded
Stall(i) == tasks' = [tasks EXCEPT ![i].elapsed = max_wait_time + 1]

\* await post_github_comment(issue_number, body, repo) by task i
Post(i, body, ok) ==
    comments' = Posted(comments, tasks[i].session_id, tasks[i].issue_number,
                       body, tasks[i].repo, ok)

\* variant: no outer except, a failed post of the timeout comment ends the
\* event loop and with it the process
MonitorTimeoutRaises(i) ==
    LET t == tasks[i]
    IN  /\ up
        /\ TimedOut(t.elapsed)
        /\ issue_sessions' = UpdateStatus(issue_sessions, t.session_id, "timeout")
        /\ \E ok \in PostOutcomes :
             /\ comments' = Posted(comments, t.session_id, t.issue_number,
                                   Body("timeout", NoPlan, NoScore), t.repo, ok)
             /\ up' = ok
             /\ tasks' = IF ok THEN Remove(tasks, i) ELSE << >>
        /\ response' = NoResponse
        /\ UNCHANGED <<created, polls, env_vars>>

\* loop head with the budget exceeded: persist 'timeout', post the comment,
\* break; a failed post is outside the inner try: the outer except posts
\* the error comment, and a failure of that post is logged
MonitorTimeout(i) ==
    LET t == tasks[i]
    IN  /\ up
        /\ TimedOut(t.elapsed)
        /\ issue_sessions' = UpdateStatus(issue_sessions, t.session_id, "timeout")
        /\ \E ok \in PostOutcomes, ok_error \in PostOutcomes :
             comments' =
               IF ok
                 THEN Posted(comments, t.session_id, t.issue_number,
                             Body("timeout", NoPlan, NoScore), t.repo, TRUE)
                 ELSE Posted(comments, t.session_id, t.issue_number,
                             Body("error", NoPlan, NoScore), t.repo, ok_error)
        /\ tasks' = Remove(tasks, i)
        /\ response' = NoResponse
        /\ UNCHANGED <<up, created, polls, env_vars>>

\* variant: a failed fetch ends the monitor
MonitorFetchFailedEnds(i) ==
    /\ up
    /\ ~TimedOut(tasks[i].elapsed)
    /\ polls < MaxPolls
    /\ polls' = polls + 1
    /\ tasks' = Remove(tasks, i)
    /\ response' = NoResponse
    /\ UNCHANGED <<up, issue_sessions, comments, created, env_vars>>

\* get_session_details raises (also: devin_client is None): logged, sleep.
\* MaxPolls bounds the iterations that come before the budget is exceeded:
\* after them, the fetches fail until the loop head finds it exceeded
MonitorFetchFailed(i) ==
    LET t == tasks[i]
    IN  /\ up
        /\ ~TimedOut(t.elapsed)
        /\ IF polls < MaxPolls
             THEN polls' = polls + 1 /\ Sleep(i)
             ELSE polls' = polls /\ Stall(i)
        /\ response' = NoResponse
        /\ UNCHANGED <<up, issue_sessions, comments, created, env_vars>>

\* variant: no break after the comment
PostAndContinue(i, body) ==
    \E ok \in PostOutcomes : Post(i, body, ok) /\ Sleep(i)

\* the post of a result or completion comment: break, or the post raises
\* into the inner except: logged, sleep, continue
PostAndBreak(i, body) ==
    \E ok \in PostOutcomes :
        /\ Post(i, body, ok)
        /\ IF ok THEN tasks' = Remove(tasks, i) ELSE Sleep(i)

\* status in ["finished", "expired"]
OnFinished(i, session_details) ==
    LET t == tasks[i]
        r == Extracted[session_details]
    IN  IF t.session_type = "scoping"
          THEN /\ issue_sessions' =
                     UpdateResult(issue_sessions, t.session_id,
                                  r.action_plan, r.confidence_score)
               /\ PostAndBreak(i,
                     IF Truthy(r.action_plan, r.confidence_score)
                       THEN Body("results", r.action_plan, NoScore)
                       ELSE Body("no_results", NoPlan, NoScore))
          ELSE /\ issue_sessions' =
                     UpdateStatus(issue_sessions, t.session_id, "completed")
               /\ PostAndBreak(i, Body("resolution_complete", NoPlan, NoScore))

\* status == "blocked"
OnBlocked(i, session_details) ==
    LET t == tasks[i]
        r == Extracted[session_details]
        blocked == UpdateStatus(issue_sessions, t.session_id, "blocked")
    IN  IF t.session_type = "scoping"
           /\ Truthy(r.action_plan, r.confidence_score)
          THEN /\ issue_sessions' =
                     UpdateResult(issue_sessions, t.session_id,
                                  r.action_plan, r.confidence_score)
               /\ PostAndBreak(i, Body("results", r.action_plan,
                                       r.confidence_score))
          ELSE /\ issue_sessions' = blocked
               /\ \E ok \in PostOutcomes :
                    LET posted == ok /\ BlockedCount(blocked, t.session_id) = 1
                    IN  /\ Post(i, Body("blocked", NoPlan, NoScore), posted)
                        /\ SleepAfter(i, posted)

\* get_session_details returns session_details
MonitorObserve(i, session_details) ==
    LET t == tasks[i]
        status == StatusOf(session_details)
    IN  /\ up
        /\ devin_client
        /\ ~TimedOut(t.elapsed)
        /\ polls < MaxPolls
        /\ polls' = polls + 1
        /\ CASE status \in {"finished", "expired"} -> OnFinished(i, session_details)
             [] status = "blocked" -> OnBlocked(i, session_details)
             [] OTHER -> Sleep(i) /\ UNCHANGED <<issue_sessions, comments>>
        /\ response' = NoResponse
        /\ UNCHANGED <<up, created, env_vars>>

Next ==
    \/ Startup
    \/ Crash
    \/ RequestNotConfigured
    \/ RequestFailed
    \/ \E n \in Issues, repo \in Repos : scope_issue(n, repo)
    \/ \E n \in Issues, repo \in Repos : resolve_issue(n, repo)
    \/ \E i \in DOMAIN tasks : MonitorTimeout(i)
    \/ \E i \in DOMAIN tasks : MonitorFetchFailed(i)
    \/ \E i \in DOMAIN tasks, d \in SessionDetails : MonitorObserve(i, d)

Spec == Init /\ [][Next]_vars

(***************************************************************************)
(* A direct call of DevinClient.extract_action_plan_and_confidence, as in  *)
(* test_confidence_extraction.py: no server, one transcript.               *)
(***************************************************************************)
ExtractInit ==
    /\ up = FALSE
    /\ devin_client = TRUE
    /\ issue_sessions = << >>
    /\ tasks = << >>
    /\ comments = [s \in SessionIds |-> << >>]
    /\ created = [s \in SessionIds |-> NoRequest]
    /\ polls = 0
    /\ response = NoResponse
    /\ github_reliable = FALSE
    /\ messages \in InputTranscripts
    /\ extraction = NotExtracted

Extract ==
    /\ extraction = NotExtracted
    /\ extraction' = extract_action_plan_and_confidence([messages |-> messages])
    /\ UNCHANGED <<up, devin_client, issue_sessions, tasks, comments, created,
                   polls, response, github_reliable, messages>>

ExtractNext == Extract

ExtractSpec == ExtractInit /\ [][ExtractNext]_vars

(***************************************************************************)
(* The server with GitHub accepting every comment, never killed, and the   *)
(* remote service never reporting finished or expired, nor blocked with a  *)
(* complete result.  Every monitor is a task of the event loop, and every  *)
(* await of its loop returns: each one takes its next step.                *)
(***************************************************************************)
LiveInit ==
    /\ up = FALSE
    /\ devin_client \in BOOLEAN
    /\ issue_sessions = << >>
    /\ tasks = << >>
    /\ comments = [s \in SessionIds |-> << >>]
    /\ created = [s \in SessionIds |-> NoRequest]
    /\ polls = 0
    /\ response = NoResponse
    /\ github_reliable = TRUE
    /\ messages = << >>
    /\ extraction = NotExtracted

\* the answers that neither finish a session nor complete a blocked one
PendingDetails ==
    {d \in SessionDetails :
        /\ StatusOf(d) \notin {"finished", "expired"}
        /\ StatusOf(d) = "blocked"
              => ~Truthy(Extracted[d].action_plan, Extracted[d].confidence_score)}

\* the next step of the monitor of session s
MonitorStep(s) ==
    \E i \in DOMAIN tasks :
        /\ tasks[i].session_id = s
        /\ \/ MonitorTimeout(i)
           \/ MonitorFetchFailed(i)
           \/ \E d \in PendingDetails : MonitorObserve(i, d)

LiveNext ==
    \/ Startup
    \/ RequestNotConfigured
    \/ RequestFailed
    \/ \E n \in Issues, repo \in Repos : scope_issue(n, repo)
    \/ \E n \in Issues, repo \in Repos : resolve_issue(n, repo)
    \/ \E s \in SessionIds : MonitorStep(s)

LiveSpec ==
    /\ LiveInit
    /\ [][LiveNext]_vars
    /\ \A s \in SessionIds : WF_vars(MonitorStep(s))

(***************************************************************************)
(* The server of Spec, with the same scheduling of the monitors: while the *)
(* process runs, each monitor takes its next step, whatever the answer.    *)
(***************************************************************************)
\* the next step of the monitor of session s, any answer
AnyMonitorStep(s) ==
    \E i \in DOMAIN tasks :
        /\ tasks[i].session_id = s
        /\ \/ MonitorTimeout(i)
           \/ MonitorFetchFailed(i)
           \/ \E d \in SessionDetails : MonitorObserve(i, d)

FairSpec ==
    /\ Init
    /\ [][Next]_vars
    /\ \A s \in SessionIds : WF_vars(AnyMonitorStep(s))

(***************************************************************************)
(* Properties.                                                             *)
(***************************************************************************)
TerminalStatuses == {"completed", "timeout"}
ActiveStatuses == {"scoping", "resolving", "blocked"}
TerminalKinds == {"results", "no_results", "resolution_complete", "timeout"}

\* the rows of a session, the tasks of a session, its comments of some kinds
RowsOf(rows, s) == {i \in DOMAIN rows : rows[i].devin_session_id = s}
TasksOf(ts, s) == SelectSeq(ts, LAMBDA t : t.session_id = s)
CountKind(s, kinds) ==
    Cardinality({i \in DOMAIN comments[s] : comments[s][i].kind \in kinds})
LastKind(s) ==
    IF comments[s] = << >> THEN "none" ELSE comments[s][Len(comments[s])].kind

\* C1: in one run of a monitor at most one "blocked, may need input" comment
\* is posted, however many Blocked observations the run makes.
C1_OneBlockedPerRun ==
    \A i \in DOMAIN tasks : tasks[i].blocked_posted <= 1

\* C2: a monitor that lifespan resumed for a row whose status was already
\* 'blocked', a "blocked" comment having been posted before the restart, posts
\* no "blocked" comment.
C2_ResumedBlockedIsSilent ==
    \A i \in DOMAIN tasks :
        /\ tasks[i].resumed_from = "blocked"
        /\ CountKind(tasks[i].session_id, {"blocked"}) > tasks[i].blocked_posted
        => tasks[i].blocked_posted = 0

\* C3: once a row's status is 'completed' or 'timeout', no step changes it to
\* 'scoping', 'resolving' or 'blocked'.
C3_TerminalNeverReactivated ==
    [][\A i \in DOMAIN issue_sessions :
          issue_sessions[i].status \in TerminalStatuses
             => issue_sessions'[i].status \notin ActiveStatuses]_vars

\* C4: in every row, action_plan is set if and only if confidence_score is set.
C4_PlanAndScoreTogether ==
    \A i \in DOMAIN issue_sessions :
        (issue_sessions[i].action_plan = NoPlan)
            <=> (issue_sessions[i].confidence_score = NoScore)

\* C5: an iteration of a monitor that starts with the budget exceeded
\* persists 'timeout', ends the monitor, and puts on the issue at most the
\* timeout comment (the error comment when that post fails): the remote
\* status of that tick persists nothing and posts nothing.
C5_TimeoutPrecedence ==
    [][\A s \in SessionIds :
          /\ up'
          /\ \E i \in DOMAIN tasks : /\ tasks[i].session_id = s
                                     /\ tasks[i].elapsed > max_wait_time
          /\ \/ TasksOf(tasks', s) # TasksOf(tasks, s)
             \/ comments'[s] # comments[s]
             \/ \E i \in RowsOf(issue_sessions, s) :
                    issue_sessions'[i] # issue_sessions[i]
          => /\ \A i \in RowsOf(issue_sessions, s) :
                    issue_sessions'[i] =
                        [issue_sessions[i] EXCEPT !.status = "timeout"]
             /\ TasksOf(tasks', s) = << >>
             /\ \/ comments'[s] = comments[s]
                \/ /\ Len(comments'[s]) = Len(comments[s]) + 1
                   /\ SubSeq(comments'[s], 1, Len(comments[s])) = comments[s]
                   /\ comments'[s][Len(comments'[s])].kind \in {"timeout", "error"}]_vars

\* a monitor has timed out: 'timeout' is persisted and the comment is posted
C5_Witness ==
    \E s \in SessionIds :
        /\ LastKind(s) = "timeout"
        /\ TasksOf(tasks, s) = << >>
        /\ \A i \in RowsOf(issue_sessions, s) : issue_sessions[i].status = "timeout"
        /\ RowsOf(issue_sessions, s) # {}

\* C6: a session whose row is not terminal has at most one monitor task.
C6_AtMostOneMonitor ==
    \A s \in SessionIds :
        (\E i \in RowsOf(issue_sessions, s) :
             issue_sessions[i].status \in ActiveStatuses)
           => Len(TasksOf(tasks, s)) <= 1

\* after a restart: one session is monitored by a resumed task, another by
\* the task its request scheduled
C6_Witness ==
    /\ Len(tasks) = 2
    /\ tasks[1].resumed_from # "request"
    /\ tasks[2].resumed_from = "request"
    /\ tasks[1].session_id # tasks[2].session_id

\* C7: the startup sweep schedules exactly one monitor for every row whose
\* status is 'scoping', 'resolving' or 'blocked', and none for a row whose
\* status is 'completed' or 'timeout'.
C7_SweepResumesActiveOnly ==
    [][~up /\ up'
         => \A i \in DOMAIN issue_sessions :
               Len(TasksOf(tasks', issue_sessions[i].devin_session_id)) =
                  IF issue_sessions[i].status \in ActiveStatuses THEN 1 ELSE 0]_vars

\* the sweep has run over a blocked row and a terminal row
C7_Witness ==
    /\ up
    /\ Len(issue_sessions) = 2
    /\ Len(tasks) = 1
    /\ tasks[1].resumed_from = "blocked"
    /\ tasks[1].elapsed = 0
    /\ \E i \in DOMAIN issue_sessions :
          issue_sessions[i].status \in TerminalStatuses

\* C8: a monitor runs with the kind its session was created with, also when
\* lifespan resumed it, and a session created as resolving never gets an
\* action_plan or a confidence_score.
C8_ResumedWithCreatedKind ==
    /\ \A i \in DOMAIN tasks :
          tasks[i].session_type = created[tasks[i].session_id].kind
    /\ \A i \in DOMAIN issue_sessions :
          created[issue_sessions[i].devin_session_id].kind = "resolving"
             => /\ issue_sessions[i].action_plan = NoPlan
                /\ issue_sessions[i].confidence_score = NoScore

\* C9: every comment posted for a session is on the issue_ref of the request
\* that created the session.
C9_CommentsOnCreatedIssue ==
    \A s \in SessionIds :
        \A i \in DOMAIN comments[s] :
            /\ comments[s][i].repo = created[s].repo
            /\ comments[s][i].issue_number = created[s].issue_number

\* C10: a session has at most one terminal comment (result, no structured
\* result, completion or timeout) on its issue, whatever crashes and restarts
\* happen.
C10_OneTerminalComment ==
    \A s \in SessionIds : CountKind(s, TerminalKinds) <= 1

\* a session whose terminal comment is posted, with the process restarted
\* afterwards and running: the sweep found the row terminal
C10_Witness ==
    \E s \in SessionIds :
        /\ CountKind(s, TerminalKinds) = 1
        /\ up
        /\ TasksOf(tasks, s) = << >>
        /\ \E i \in DOMAIN tasks : /\ tasks[i].resumed_from # "request"
                                   /\ tasks[i].elapsed = 0
                                   /\ tasks[i].session_id > s

\* C11: a request that is answered with the error of a missing DEVIN_API_KEY
\* (503) or of a failed create_devin_session (500) leaves the table, the
\* comments and the monitor tasks as they were.
C11_FailedCreationLeavesNothing ==
    [][response'.detail \in {"not configured", "create_devin_session"}
          => /\ response'.status_code \in {500, 503}
             /\ UNCHANGED <<issue_sessions, comments, tasks, created>>]_vars

\* a creation request has failed on a server that holds a row and a monitor
C11_Witness ==
    /\ response = Response(500, "create_devin_session")
    /\ issue_sessions # << >>
    /\ tasks # << >>

\* C12: after /resolve-issue has answered 200 for an issue, the table holds at
\* most one row of that issue with status 'scoping', 'resolving' or 'blocked',
\* and no two rows hold the same devin_session_id.
C12_ResolveReplacesActiveRecord ==
    \A s \in SessionIds :
        /\ response = Response(200, "resolving")
        /\ NextSession = s + 1
        => /\ Cardinality({i \in DOMAIN issue_sessions :
                  /\ issue_sessions[i].issue_number = created[s].issue_number
                  /\ issue_sessions[i].status \in ActiveStatuses}) <= 1
           /\ \A i, j \in DOMAIN issue_sessions :
                  issue_sessions[i].devin_session_id =
                      issue_sessions[j].devin_session_id => i = j

\* the kinds of the comments of a session, in order
Kinds(log, s) == [k \in DOMAIN log[s] |-> log[s][k].kind]

\* C13: when the monitor that /scope-issue scheduled, having seen nothing but
\* active answers, is answered "finished" with a transcript from which a plan
\* and a confidence score c are extracted, and GitHub accepts the comment, the
\* row is 'completed' with confidence_score = c, the monitor ends, and the
\* comments of the session are the started comment and then the result comment.
C13_ScopingFinishedWithResult ==
    [][\A i \in DOMAIN tasks, d \in SessionDetails :
          LET t == tasks[i]
              s == t.session_id
              r == Extracted[d]
          IN  /\ StatusOf(d) = "finished"
              /\ t.session_type = "scoping"
              /\ t.resumed_from = "request"
              /\ \A k \in RowsOf(issue_sessions, s) :
                    issue_sessions[k].status = "scoping"
              /\ Kinds(comments, s) = <<"scoping_started">>
              /\ r.action_plan # NoPlan
              /\ r.confidence_score # NoScore
              /\ comments'[s] # comments[s]
              /\ MonitorObserve(i, d)
              => /\ \A k \in RowsOf(issue_sessions, s) :
                       /\ issue_sessions'[k].status = "completed"
                       /\ issue_sessions'[k].action_plan = r.action_plan
                       /\ issue_sessions'[k].confidence_score = r.confidence_score
                 /\ TasksOf(tasks', s) = << >>
                 /\ Kinds(comments', s) = <<"scoping_started", "results">>]_vars

\* C14: with the remote service never reporting finished or expired, nor
\* blocked with a complete result, whatever fetches fail, every monitor
\* eventually persists 'timeout', posts the timeout comment, once, and ends.
C14_EventuallyTimeout ==
    \A s \in SessionIds :
        (TasksOf(tasks, s) # << >>)
            ~> /\ TasksOf(tasks, s) = << >>
               /\ RowsOf(issue_sessions, s) # {}
               /\ \A k \in RowsOf(issue_sessions, s) :
                     issue_sessions[k].status = "timeout"
               /\ CountKind(s, {"timeout"}) = 1

\* a monitor that saw the session blocked has timed out
C14_Witness ==
    \E s \in SessionIds :
        /\ github_reliable
        /\ TasksOf(tasks, s) = << >>
        /\ Kinds(comments, s) = <<"scoping_started", "blocked", "timeout">>
        /\ \A k \in RowsOf(issue_sessions, s) :
              issue_sessions[k].status = "timeout"

\* C15: when the monitor of a session that /resolve-issue created is answered
\* "finished" or "expired" and GitHub accepts the comment, the row is
\* 'completed' without action_plan and confidence_score, the comment is the
\* generic completion comment, the only one of the session, and the monitor
\* ends.
C15_ResolvingFinished ==
    [][\A i \in DOMAIN tasks, d \in SessionDetails :
          LET s == tasks[i].session_id
          IN  /\ StatusOf(d) \in {"finished", "expired"}
              /\ created[s].kind = "resolving"
              /\ comments'[s] # comments[s]
              /\ MonitorObserve(i, d)
              => /\ \A k \in RowsOf(issue_sessions, s) :
                       /\ issue_sessions'[k].status = "completed"
                       /\ issue_sessions'[k].action_plan = NoPlan
                       /\ issue_sessions'[k].confidence_score = NoScore
                 /\ TasksOf(tasks', s) = << >>
                 /\ comments'[s][Len(comments'[s])].kind = "resolution_complete"
                 /\ Cardinality({k \in DOMAIN comments'[s] :
                       comments'[s][k].kind \in TerminalKinds}) = 1]_vars

StartedKinds == {"scoping_started", "resolution_started"}

\* C16: among the comments of a session, the started comment is the first, and
\* no "blocked" comment comes after a result, completion or timeout comment.
C16_CommentsInOrder ==
    \A s \in SessionIds :
        \A k \in DOMAIN comments[s] :
            /\ comments[s][k].kind \in StartedKinds => k = 1
            /\ comments[s][k].kind = "blocked"
                  => \A j \in 1..(k - 1) : comments[s][j].kind \notin TerminalKinds

\* a session with its started, blocked and result comments
C16_Witness ==
    \E s \in SessionIds :
        Kinds(comments, s) = <<"scoping_started", "blocked", "results">>

(***************************************************************************)
(* The extractor, called directly.  What a transcript states is read here  *)
(* from its lines, without the extractor's own parsing.                    *)
(***************************************************************************)
\* the line without the blanks around it, and the number a confidence line states
Trimmed(line) ==
    CASE line = PlanLine -> <<"step">>
      [] line = BlankLine -> << >>
      [] OTHER -> line
Stated(line) ==
    CASE line = <<"CONFIDENCE SCORE:", " ", "8", "5", "%">> -> 85
      [] line = <<"Confidence Score:", "7">> -> 7

\* an agent message with a plan marker line; the place of its first marker
HasPlan(m) ==
    /\ m.type = "devin_message"
    /\ \E p \in DOMAIN m.message : HasPlanMarker(m.message[p])
PlanAt(m) ==
    CHOOSE p \in DOMAIN m.message :
        /\ HasPlanMarker(m.message[p])
        /\ \A k \in 1..(p - 1) : ~HasPlanMarker(m.message[k])

\* the place of the first confidence line after the plan marker, or the end
ConfAt(m) ==
    LET qs == {q \in (PlanAt(m) + 1)..Len(m.message) : HasConfMarker(m.message[q])}
    IN  IF qs = {} THEN Len(m.message) + 1
        ELSE CHOOSE q \in qs : \A k \in qs : q <= k

\* the plan block of the message: the trimmed non-blank lines between them
Block(m) ==
    LET between == SubSeq(m.message, PlanAt(m) + 1, ConfAt(m) - 1)
        kept == SelectSeq(between, LAMBDA line : Trimmed(line) # << >>)
    IN  [k \in DOMAIN kept |-> Trimmed(kept[k])]

\* marker line, plan lines, then a "CONFIDENCE SCORE: N%" or "... N" line, and
\* no other marker line
WellFormed(m) ==
    /\ HasPlan(m)
    /\ Block(m) # << >>
    /\ ConfAt(m) <= Len(m.message)
    /\ m.message[ConfAt(m)] \in ConfLines
    /\ \A k \in DOMAIN m.message :
          /\ HasPlanMarker(m.message[k]) => k = PlanAt(m)
          /\ HasConfMarker(m.message[k]) => k = ConfAt(m)

\* the last agent message of the transcript that has a plan marker
LastWithPlan(msgs) ==
    CHOOSE j \in DOMAIN msgs :
        /\ HasPlan(msgs[j])
        /\ \A k \in (j + 1)..Len(msgs) : ~HasPlan(msgs[k])

\* C17: when the last agent message with an "ACTION PLAN:" line has plan lines
\* after it and then a "CONFIDENCE SCORE: N%" or "CONFIDENCE SCORE: N" line,
\* the extractor returns the trimmed non-blank lines between the two markers,
\* in order and nothing else, and N.
C17_WellFormedExtraction ==
    /\ extraction # NotExtracted
    /\ \E j \in DOMAIN messages : HasPlan(messages[j])
    /\ WellFormed(messages[LastWithPlan(messages)])
    => LET m == messages[LastWithPlan(messages)]
       IN  extraction = [action_plan |-> Block(m),
                         confidence_score |-> Stated(m.message[ConfAt(m)])]

\* a message with text before the marker and after the confidence line, and
\* a blank line in the plan: the two plan lines and 85 are returned
C17_Witness ==
    /\ Len(messages) = 2
    /\ messages[2].message =
          <<TextLine, <<"ACTION PLAN:">>, PlanLine, BlankLine,
            <<"CONFIDENCE SCORE:", " ", "8", "5", "%">>, TextLine>>
    /\ extraction = [action_plan |-> << <<"step">> >>, confidence_score |-> 85]

\* C18: when several agent messages hold a plan block (a marker line and at
\* least one plan line), the extractor returns the plan of the last of them.
C18_LastPlanWins ==
    LET blocks == {j \in DOMAIN messages :
                      HasPlan(messages[j]) /\ Block(messages[j]) # << >>}
    IN  /\ extraction # NotExtracted
        /\ Cardinality(blocks) >= 2
        => extraction.action_plan =
              Block(messages[CHOOSE j \in blocks : \A k \in blocks : k <= j])

\* two agent messages with different plans: the second one's is returned
C18_Witness ==
    /\ Len(messages) = 2
    /\ HasPlan(messages[1]) /\ Block(messages[1]) = << <<"step">>, <<"note">> >>
    /\ HasPlan(messages[2]) /\ Block(messages[2]) = << <<"note">> >>
    /\ extraction.action_plan = << <<"note">> >>

\* C19: when an agent message has a plan marker and no agent message has a
\* confidence line, the extractor returns no confidence score.
C19_NoMarkerNoScore ==
    /\ extraction # NotExtracted
    /\ \E j \in DOMAIN messages : HasPlan(messages[j])
    /\ \A j \in DOMAIN messages :
          messages[j].type = "devin_message"
             => \A k \in DOMAIN messages[j].message :
                   ~HasConfMarker(messages[j].message[k])
    => extraction.confidence_score = NoScore

\* a user message quotes a confidence line, the agent message has a plan only
C19_Witness ==
    /\ Len(messages) = 2
    /\ messages[1] = MsgUser
    /\ HasPlan(messages[2])
    /\ extraction.action_plan = << <<"step">> >>
    /\ extraction.confidence_score = NoScore

\* C20: when the post of a result or completion comment fails in the loop,
\* the monitor goes on as after an accepted post: it ends, and the comment is
\* not attempted again.
C20_FailedTerminalPostStops ==
    [][\A i \in DOMAIN tasks, d \in SessionDetails :
          /\ StatusOf(d) \in {"finished", "expired"}
          /\ comments' = comments
          /\ MonitorObserve(i, d)
          => TasksOf(tasks', tasks[i].session_id) = << >>]_vars

\* C21: when the rows of a scoping session are already 'blocked', a further
\* "blocked" answer leaves their status, action_plan and confidence_score as
\* they are.
C21_SecondBlockedChangesNothing ==
    [][\A i \in DOMAIN tasks, d \in SessionDetails :
          LET s == tasks[i].session_id
          IN  /\ StatusOf(d) = "blocked"
              /\ created[s].kind = "scoping"
              /\ tasks[i].session_type = "scoping"
              /\ \A k \in RowsOf(issue_sessions, s) :
                    issue_sessions[k].status = "blocked"
              /\ issue_sessions' # issue_sessions
              /\ MonitorObserve(i, d)
              => \A k \in RowsOf(issue_sessions, s) :
                    issue_sessions'[k] = issue_sessions[k]]_vars

\* C22: a tick whose fetch fails leaves the table and the comments as they
\* are and the monitor running, with the same arguments and later in its
\* budget: the next loop head fetches again or finds the budget exceeded.
C22_FetchFailureChangesNothing ==
    [][\A i \in DOMAIN tasks :
          MonitorFetchFailed(i)
          => /\ issue_sessions' = issue_sessions
             /\ comments' = comments
             /\ up'
             /\ Len(tasks') = Len(tasks)
             /\ tasks'[i] = [tasks[i] EXCEPT !.elapsed = tasks'[i].elapsed]
             /\ tasks'[i].elapsed > tasks[i].elapsed
             /\ \A j \in DOMAIN tasks : j # i => tasks'[j] = tasks[j]]_vars

\* after ticks that changed nothing, the monitor is at the loop head with the
\* budget exceeded and the row still 'scoping'
C22_Witness ==
    /\ up
    /\ polls = MaxPolls
    /\ Len(tasks) = 1
    /\ TimedOut(tasks[1].elapsed)
    /\ tasks[1].resumed_from = "request"
    /\ Len(issue_sessions) = 1
    /\ issue_sessions[1].status = "scoping"
    /\ Kinds(comments, tasks[1].session_id) = <<"scoping_started">>

\* C23: every result comment carries the extracted plan and the confidence
\* score, on whichever answer the pair was found.
C23_ResultCarriesPlanAndScore ==
    \A s \in SessionIds :
        \A k \in DOMAIN comments[s] :
            comments[s][k].kind = "results"
               => /\ comments[s][k].action_plan # NoPlan
                  /\ comments[s][k].confidence_score # NoScore

\* C24: when the post of the timeout comment fails, outside the inner try,
\* the monitor ends, at most one error comment is put on the issue, and the
\* process and the other monitors go on as they were.
C24_EscapedExceptionEndsMonitor ==
    [][\A i \in DOMAIN tasks :
          LET s == tasks[i].session_id
          IN  /\ \/ comments'[s] = comments[s]
                 \/ comments'[s][Len(comments'[s])].kind # "timeout"
              /\ MonitorTimeout(i)
              => /\ up'
                 /\ tasks' = Remove(tasks, i)
                 /\ \/ comments' = comments
                    \/ comments' =
                         [comments EXCEPT ![s] =
                            Append(@, [kind |-> "error", action_plan |-> NoPlan,
                                       confidence_score |-> NoScore,
                                       issue_number |-> tasks[i].issue_number,
                                       repo |-> tasks[i].repo])]]_vars

\* a monitor has ended with its error comment while another one is running
C24_Witness ==
    /\ up
    /\ Len(tasks) = 1
    /\ \E s \in SessionIds :
          /\ s # tasks[1].session_id
          /\ LastKind(s) = "error"
          /\ \A k \in RowsOf(issue_sessions, s) :
                issue_sessions[k].status = "timeout"

\* C25: the confidence_score of every row is unset or between 0 and 100.
C25_ScoreInRange ==
    \A i \in DOMAIN issue_sessions :
        \/ issue_sessions[i].confidence_score = NoScore
        \/ issue_sessions[i].confidence_score \in 0..100

\* C26: no step changes the status of a row from 'completed' to 'timeout' or
\* from 'timeout' to 'completed'.
C26_TerminalStatusesAbsorbing ==
    [][\A i \in DOMAIN issue_sessions :
          /\ issue_sessions[i].status = "completed"
                => issue_sessions'[i].status # "timeout"
          /\ issue_sessions[i].status = "timeout"
                => issue_sessions'[i].status # "completed"]_vars

\* C27: while the process is running, every row whose status is 'scoping' or
\* 'resolving' has a monitor task.
C27_ActiveRowIsMonitored ==
    up => \A i \in DOMAIN issue_sessions :
             issue_sessions[i].status \in {"scoping", "resolving"}
                => TasksOf(tasks, issue_sessions[i].devin_session_id) # << >>

\* C28: when the last comment of a session is the "completed, no structured
\* results" comment its rows hold neither action_plan nor confidence_score,
\* and when it is the result comment they hold both.
C28_CommentAgreesWithRow ==
    \A s \in SessionIds :
        \A i \in RowsOf(issue_sessions, s) :
            /\ LastKind(s) = "no_results"
                  => /\ issue_sessions[i].action_plan = NoPlan
                     /\ issue_sessions[i].confidence_score = NoScore
            /\ LastKind(s) = "results"
                  => /\ issue_sessions[i].action_plan # NoPlan
                     /\ issue_sessions[i].confidence_score # NoScore

\* C29: the plan and the confidence score that one call returns are what the
\* extractor returns for one of the agent messages alone.
C29_PairFromOneMessage ==
    /\ extraction # NotExtracted
    /\ extraction.action_plan # NoPlan
    /\ extraction.confidence_score # NoScore
    => \E j \in DOMAIN messages :
          /\ messages[j].type = "devin_message"
          /\ extraction =
                extract_action_plan_and_confidence([messages |-> <<messages[j]>>])

\* C30: if the process ends up running for good, then whenever the rows of a
\* session are 'completed' or 'timeout', a result, completion or timeout
\* comment of the session is on the issue, then or later.
C30_TerminalEventuallyNotified ==
    \A s \in SessionIds :
        <>[]up =>
            []((/\ RowsOf(issue_sessions, s) # {}
                /\ \A k \in RowsOf(issue_sessions, s) :
                      issue_sessions[k].status \in TerminalStatuses)
                  => <>(CountKind(s, TerminalKinds) >= 1))

====
